---- MODULE Spec2Model ----
(***************************************************************************)
(* The signaling server of src/server.ts: the registry `users` (a Map in   *)
(* insertion order), the WebSocket connections with their readyState, and  *)
(* one action per transport event handler.  The ping timer and the pong    *)
(* listener touch neither the registry nor any envelope and are left out.  *)
(* The server imports WebSocketServer from "ws" (version 8 or later), whose *)
(* wss.close() leaves the accepted connections to finish on their own.     *)
(***************************************************************************)
EXTENDS Integers, Sequences, FiniteSets, TLC

\* Bounds of the model.
MaxConns == 2       \* WebSocket connections accepted during a run
MaxIds == 2         \* identities uuidv4 can mint during a run
MaxClock == 1       \* largest value of the server clock

Conns == 1..MaxConns
Ids == {"u" \o ToString(i) : i \in 1..MaxIds}
Names == {"a"}

VARIABLES
  phase,      \* per connection: "none", "open", "closing", "draining", "closed"
  users,      \* this.users, as the sequence of its values in insertion order
  minted,     \* every identity uuidv4 has returned so far
  out,        \* the ws.send calls made by the latest handler, in order
  lastList,   \* per connection: the latest user-list delivered to it
  last,       \* the event being handled, "idle" between events
  now,        \* Date.now()
  stopping    \* shutdown has run

vars == <<phase, users, minted, out, lastList, last, now, stopping>>

Max(S) == CHOOSE x \in S : \A y \in S : y <= x

\* ws.readyState. A connection is CLOSING after the server called close()
\* on it ("closing": inbound frames still arrive) or after the peer's close
\* frame or a socket error ("draining": no more inbound frames).
readyState(p, ws) ==
  CASE p[ws] = "none" -> "CONNECTING"
    [] p[ws] = "open" -> "OPEN"
    [] p[ws] \in {"closing", "draining"} -> "CLOSING"
    [] OTHER -> "CLOSED"

\* !message.field : the field is absent or the empty string.
Falsy(message, field) ==
  \/ field \notin DOMAIN message
  \/ message[field] = ""

\* message.type, "undefined" when the frame has none.
TypeOf(message) == IF "type" \in DOMAIN message THEN message.type ELSE "undefined"

\* One ws.send(JSON.stringify(env)) on connection ws, with the readyState
\* the connection has at the call.  The ws library delivers only when OPEN.
Send(p, ws, env) == [to |-> ws, env |-> env, rs |-> readyState(p, ws)]

\* uuidv4(): the identities a call can return, given those returned before.
\* Identities are opaque tokens that the server only compares for equality,
\* so the model names them in the order they are minted.
uuidv4(m) == {"u" \o ToString(Cardinality(m) + 1)} \cap Ids

\* Map.set(key, value): replaces in place when the key exists, else appends.
MapSet(us, user) ==
  IF \E i \in 1..Len(us) : us[i].id = user.id
  THEN [i \in 1..Len(us) |-> IF us[i].id = user.id THEN user ELSE us[i]]
  ELSE Append(us, user)

\* Map.delete(key).
MapDelete(us, key) == SelectSeq(us, LAMBDA u : u.id # key)

\* Mutant of sendError: the readyState guard is missing.
sendError_unguarded(p, ws, errorMessage) ==
  << Send(p, ws, [type |-> "error", error |-> errorMessage]) >>

sendError(p, ws, errorMessage) ==
  IF readyState(p, ws) = "OPEN"
  THEN << Send(p, ws, [type |-> "error", error |-> errorMessage]) >>
  ELSE << >>

UserList(us) ==
  [i \in 1..Len(us) |->
     [id |-> us[i].id, username |-> us[i].username, isOnline |-> us[i].isOnline]]

\* Mutant of broadcastUserList: the list goes to every OPEN connection of the
\* server, registered or not.
broadcastUserList_everyone(us, p) ==
  LET message == [type |-> "user-list", users |-> UserList(us)]
      live == SelectSeq([ws \in Conns |-> ws], LAMBDA ws : readyState(p, ws) = "OPEN")
  IN [i \in 1..Len(live) |-> Send(p, live[i], message)]

broadcastUserList(us, p) ==
  LET message == [type |-> "user-list", users |-> UserList(us)]
      live == SelectSeq(us, LAMBDA u : readyState(p, u.ws) = "OPEN")
  IN [i \in 1..Len(live) |-> Send(p, live[i].ws, message)]

\* Mutant of handleJoin: the registry is keyed by the username, not a fresh id.
handleJoin_keyByName(us, p, ws, message, userId) ==
  IF Falsy(message, "username")
  THEN [users |-> us, out |-> sendError(p, ws, "Username is required")]
  ELSE LET user == [id |-> message.username, username |-> message.username,
                    ws |-> ws, isOnline |-> TRUE]
           us2 == MapSet(us, user)
           joined == [type |-> "joined", userId |-> user.id,
                      username |-> user.username]
       IN [users |-> us2,
           out |-> << Send(p, ws, joined) >> \o broadcastUserList(us2, p)]

\* Mutant of handleJoin: the user-list is built before users.set.
handleJoin_staleList(us, p, ws, message, userId) ==
  IF Falsy(message, "username")
  THEN [users |-> us, out |-> sendError(p, ws, "Username is required")]
  ELSE LET user == [id |-> userId, username |-> message.username,
                    ws |-> ws, isOnline |-> TRUE]
           us2 == MapSet(us, user)
           joined == [type |-> "joined", userId |-> userId,
                      username |-> user.username]
           list == [type |-> "user-list", users |-> UserList(us)]
           live == SelectSeq(us2, LAMBDA u : readyState(p, u.ws) = "OPEN")
       IN [users |-> us2,
           out |-> << Send(p, ws, joined) >>
                     \o [i \in 1..Len(live) |-> Send(p, live[i].ws, list)]]

\* Mutant of handleJoin: the user-list is broadcast before the joined reply.
handleJoin_listFirst(us, p, ws, message, userId) ==
  IF Falsy(message, "username")
  THEN [users |-> us, out |-> sendError(p, ws, "Username is required")]
  ELSE LET user == [id |-> userId, username |-> message.username,
                    ws |-> ws, isOnline |-> TRUE]
           us2 == MapSet(us, user)
           joined == [type |-> "joined", userId |-> userId,
                      username |-> user.username]
       IN [users |-> us2,
           out |-> broadcastUserList(us2, p) \o << Send(p, ws, joined) >>]

handleJoin(us, p, ws, message, userId) ==
  IF Falsy(message, "username")
  THEN [users |-> us, out |-> sendError(p, ws, "Username is required")]
  ELSE LET user == [id |-> userId, username |-> message.username,
                    ws |-> ws, isOnline |-> TRUE]
           us2 == MapSet(us, user)
           joined == [type |-> "joined", userId |-> userId,
                      username |-> user.username]
       IN [users |-> us2,
           out |-> << Send(p, ws, joined) >> \o broadcastUserList(us2, p)]

\* Mutant of handleWebRTCSignaling: the envelope goes to every participant.
handleWebRTCSignaling_all(us, p, message) ==
  IF Falsy(message, "targetUserId")
  THEN [users |-> us, out |-> << >>]
  ELSE LET rcv == SelectSeq(us, LAMBDA u : readyState(p, u.ws) = "OPEN")
       IN [users |-> us,
           out |-> [i \in 1..Len(rcv) |-> Send(p, rcv[i].ws, message)]]

\* Mutant of handleWebRTCSignaling: an envelope without a target is treated
\* as addressed to everyone.
handleWebRTCSignaling_noTargetAll(us, p, message) ==
  LET rcv == SelectSeq(us, LAMBDA u :
                 /\ readyState(p, u.ws) = "OPEN"
                 /\ (Falsy(message, "targetUserId") \/ u.id = message.targetUserId))
  IN [users |-> us,
      out |-> [i \in 1..Len(rcv) |-> Send(p, rcv[i].ws, message)]]

handleWebRTCSignaling(us, p, message) ==
  IF Falsy(message, "targetUserId")
  THEN [users |-> us, out |-> << >>]
  ELSE LET hit == SelectSeq(us, LAMBDA u : u.id = message.targetUserId)
       IN IF hit # << >> /\ readyState(p, hit[1].ws) = "OPEN"
          THEN [users |-> us, out |-> << Send(p, hit[1].ws, message) >>]
          ELSE [users |-> us, out |-> << >>]

\* Mutant of handleTyping: the fan-out is followed by a user-list broadcast.
handleTyping_refreshList(us, p, message) ==
  IF Falsy(message, "userId")
  THEN [users |-> us, out |-> << >>]
  ELSE LET rcv == SelectSeq(us, LAMBDA u :
                     u.id # message.userId /\ readyState(p, u.ws) = "OPEN")
       IN [users |-> us,
           out |-> [i \in 1..Len(rcv) |-> Send(p, rcv[i].ws, message)]
                     \o broadcastUserList(us, p)]

handleTyping(us, p, message) ==
  IF Falsy(message, "userId")
  THEN [users |-> us, out |-> << >>]
  ELSE LET rcv == SelectSeq(us, LAMBDA u :
                     u.id # message.userId /\ readyState(p, u.ws) = "OPEN")
       IN [users |-> us,
           out |-> [i \in 1..Len(rcv) |-> Send(p, rcv[i].ws, message)]]

\* { ...message, timestamp: t }
Stamp(message, t) ==
  [f \in DOMAIN message \cup {"timestamp"} |->
     IF f = "timestamp" THEN t ELSE message[f]]

\* Mutant of handleChatMessage: the sender is skipped, as handleTyping does.
handleChatMessage_skipSender(us, p, message, t) ==
  IF Falsy(message, "userId") \/ Falsy(message, "username")
  THEN [users |-> us, out |-> << >>]
  ELSE LET timestampedMessage == Stamp(message, t)
           rcv == SelectSeq(us, LAMBDA u :
                     u.id # message.userId /\ readyState(p, u.ws) = "OPEN")
       IN [users |-> us,
           out |-> [i \in 1..Len(rcv) |-> Send(p, rcv[i].ws, timestampedMessage)]]

\* Mutant of handleChatMessage: { timestamp: t, ...message }, so a timestamp
\* the client supplied wins.
handleChatMessage_keepClient(us, p, message, t) ==
  IF Falsy(message, "userId") \/ Falsy(message, "username")
  THEN [users |-> us, out |-> << >>]
  ELSE LET timestampedMessage ==
             IF "timestamp" \in DOMAIN message THEN message ELSE Stamp(message, t)
           rcv == SelectSeq(us, LAMBDA u : readyState(p, u.ws) = "OPEN")
       IN [users |-> us,
           out |-> [i \in 1..Len(rcv) |-> Send(p, rcv[i].ws, timestampedMessage)]]

handleChatMessage(us, p, message, t) ==
  IF Falsy(message, "userId") \/ Falsy(message, "username")
  THEN [users |-> us, out |-> << >>]
  ELSE LET timestampedMessage == Stamp(message, t)
           rcv == SelectSeq(us, LAMBDA u : readyState(p, u.ws) = "OPEN")
       IN [users |-> us,
           out |-> [i \in 1..Len(rcv) |-> Send(p, rcv[i].ws, timestampedMessage)]]

\* Mutant of handleDisconnect: the entry is deleted without a broadcast.
handleDisconnect_silent(us, p, ws) ==
  LET found == {i \in 1..Len(us) : us[i].ws = ws}
  IN IF found = {}
     THEN [users |-> us, out |-> << >>]
     ELSE [users |-> MapDelete(us, us[Max(found)].id), out |-> << >>]

\* Mutant of handleDisconnect: the scan stops at the first match.
handleDisconnect_first(us, p, ws) ==
  LET found == {i \in 1..Len(us) : us[i].ws = ws}
  IN IF found = {}
     THEN [users |-> us, out |-> << >>]
     ELSE LET first == CHOOSE i \in found : \A j \in found : i <= j
              us2 == MapDelete(us, us[first].id)
          IN [users |-> us2, out |-> broadcastUserList(us2, p)]

handleDisconnect(us, p, ws) ==
  LET found == {i \in 1..Len(us) : us[i].ws = ws}
  IN IF found = {}
     THEN [users |-> us, out |-> << >>]
     ELSE LET disconnectedUserId == us[Max(found)].id
              us2 == MapDelete(us, disconnectedUserId)
          IN [users |-> us2, out |-> broadcastUserList(us2, p)]

\* Mutant of handleMessage: the default branch only logs.
handleMessage_ignoreUnknown(us, p, ws, message, userId, t) ==
  CASE TypeOf(message) = "join" -> handleJoin(us, p, ws, message, userId)
    [] TypeOf(message) \in {"offer", "answer", "ice-candidate"} ->
         handleWebRTCSignaling(us, p, message)
    [] TypeOf(message) \in {"typing", "stop-typing"} ->
         handleTyping(us, p, message)
    [] TypeOf(message) = "message" -> handleChatMessage(us, p, message, t)
    [] OTHER -> [users |-> us, out |-> << >>]

handleMessage(us, p, ws, message, userId, t) ==
  CASE TypeOf(message) = "join" -> handleJoin(us, p, ws, message, userId)
    [] TypeOf(message) \in {"offer", "answer", "ice-candidate"} ->
         handleWebRTCSignaling(us, p, message)
    [] TypeOf(message) \in {"typing", "stop-typing"} ->
         handleTyping(us, p, message)
    [] TypeOf(message) = "message" -> handleChatMessage(us, p, message, t)
    [] OTHER ->
         [users |-> us,
          out |-> sendError(p, ws, "Unknown message type: " \o TypeOf(message))]

\* The "message" listener: JSON.parse throws on a frame that is no JSON text
\* (modelled as a record with the field raw), and the catch replies.
onMessage(us, p, ws, data, userId, t) ==
  IF "raw" \in DOMAIN data
  THEN [users |-> us, out |-> sendError(p, ws, "Invalid message format")]
  ELSE handleMessage(us, p, ws, data, userId, t)

\* The frames a client can send.
JoinFrames ==
  {[type |-> "join"]} \cup {[type |-> "join", username |-> n] : n \in Names \cup {""}}
SignalFrames ==
  {[type |-> "offer"], [type |-> "answer", targetUserId |-> "u1"],
   [type |-> "ice-candidate", targetUserId |-> "u2", data |-> "cand"]}
  \cup {[type |-> "offer", targetUserId |-> i, data |-> "sdp"] : i \in Ids \cup {""}}
TypingFrames ==
  {[type |-> "typing"], [type |-> "stop-typing", userId |-> "u1"]}
  \cup {[type |-> "typing", userId |-> i] : i \in Ids \cup {""}}
ChatFrames ==
  {[type |-> "message", userId |-> "u1"], [type |-> "message", username |-> "a"],
   [type |-> "message", userId |-> "u1", username |-> "", data |-> "hi"],
   [type |-> "message", userId |-> "u2", username |-> "a", data |-> "hi",
    timestamp |-> 99]}
  \cup {[type |-> "message", userId |-> i, username |-> "a", data |-> "hi"] :
          i \in {"u1", ""}}
OtherFrames ==
  {[type |-> "leave"], [type |-> "user-list"], [data |-> "hi"], [raw |-> "{"]}
Frames == JoinFrames \cup SignalFrames \cup TypingFrames \cup ChatFrames \cup OtherFrames

\* The frame reaches users.set(userId, user).
Registers(data) == TypeOf(data) = "join" /\ ~Falsy(data, "username")

\* The frame reaches Date.now().
Stamps(data) ==
  TypeOf(data) = "message" /\ ~Falsy(data, "userId") /\ ~Falsy(data, "username")

\* What the sends of a handler leave as each connection's latest user-list.
Received(ll, o) ==
  [ws \in Conns |->
     LET at == {i \in 1..Len(o) :
                  o[i].to = ws /\ o[i].rs = "OPEN" /\ o[i].env.type = "user-list"}
     IN IF at = {} THEN ll[ws] ELSE [got |-> TRUE, users |-> o[Max(at)].env.users]]

Init ==
  /\ phase = [ws \in Conns |-> "none"]
  /\ users = << >>
  /\ minted = {}
  /\ out = << >>
  /\ lastList = [ws \in Conns |-> [got |-> FALSE, users |-> << >>]]
  /\ last = [op |-> "idle"]
  /\ now = 0
  /\ stopping = FALSE

\* No handler is running: the event loop takes the next event.
Idle == last.op = "idle"

\* wss.on("connection"): a new handle; handles are numbered as they arrive.
OnConnection(ws) ==
  /\ Idle
  /\ ~stopping
  /\ phase[ws] = "none"
  /\ \A w \in Conns : w < ws => phase[w] # "none"
  /\ phase' = [phase EXCEPT ![ws] = "open"]
  /\ out' = << >>
  /\ last' = [op |-> "connection", ws |-> ws]
  /\ UNCHANGED <<users, minted, lastList, now, stopping>>

\* ws.on("message").  uuidv4() and Date.now() are read where the code reads
\* them; the clock never runs backwards.
OnMessage(ws, data) ==
  /\ Idle
  /\ phase[ws] \in {"open", "closing"}
  /\ \E userId \in (IF Registers(data) THEN uuidv4(minted) ELSE {""}),
        t \in (IF Stamps(data) THEN now..MaxClock ELSE {now}) :
       LET r == onMessage(users, phase, ws, data, userId, t)
       IN /\ users' = r.users
          /\ out' = r.out
          /\ lastList' = Received(lastList, r.out)
          /\ minted' = IF Registers(data) THEN minted \cup {userId} ELSE minted
          /\ now' = t
          /\ last' = [op |-> "message", ws |-> ws, data |-> data]
  /\ UNCHANGED <<phase, stopping>>

\* The peer's close frame arrives: readyState becomes CLOSING.
PeerClosing(ws) ==
  /\ Idle
  /\ phase[ws] \in {"open", "closing"}
  /\ phase' = [phase EXCEPT ![ws] = "draining"]
  /\ out' = << >>
  /\ last' = [op |-> "closing", ws |-> ws]
  /\ UNCHANGED <<users, minted, lastList, now, stopping>>

\* ws.on("error"): the socket failed; the listener only clears the ping timer.
OnError(ws) ==
  /\ Idle
  /\ phase[ws] \in {"open", "closing"}
  /\ phase' = [phase EXCEPT ![ws] = "draining"]
  /\ out' = << >>
  /\ last' = [op |-> "error", ws |-> ws]
  /\ UNCHANGED <<users, minted, lastList, now, stopping>>

\* ws.on("close"): readyState is CLOSED when the listener runs.
OnClose(ws) ==
  /\ Idle
  /\ phase[ws] \in {"open", "closing", "draining"}
  /\ LET p2 == [phase EXCEPT ![ws] = "closed"]
         r == handleDisconnect(users, p2, ws)
     IN /\ phase' = p2
        /\ users' = r.users
        /\ out' = r.out
        /\ lastList' = Received(lastList, r.out)
  /\ last' = [op |-> "close", ws |-> ws]
  /\ UNCHANGED <<minted, now, stopping>>

\* SIGTERM / SIGINT: close(1000) on every registered connection that is OPEN.
shutdown(us, p) ==
  [ws \in Conns |->
     IF /\ \E i \in 1..Len(us) : us[i].ws = ws
        /\ readyState(p, ws) = "OPEN"
     THEN "closing" ELSE p[ws]]

OnSignal ==
  /\ Idle
  /\ phase' = shutdown(users, phase)
  /\ stopping' = TRUE
  /\ out' = << >>
  /\ last' = [op |-> "shutdown"]
  /\ UNCHANGED <<users, minted, lastList, now>>

\* The handler returns to the event loop; the record of its sends is dropped.
Return ==
  /\ ~Idle
  /\ last.op # "exit"
  /\ last' = [op |-> "idle"]
  /\ out' = << >>
  /\ UNCHANGED <<phase, users, minted, lastList, now, stopping>>

\* The callback of wss.close() in shutdown: it runs once shutdown was called
\* and no accepted connection is left, and ends the process.
OnServerClosed ==
  /\ Idle
  /\ stopping
  /\ \A ws \in Conns : phase[ws] \in {"none", "closed"}
  /\ last' = [op |-> "exit"]
  /\ out' = << >>
  /\ UNCHANGED <<phase, users, minted, lastList, now, stopping>>

Next ==
  \/ \E ws \in Conns : OnConnection(ws)
  \/ \E ws \in Conns, data \in Frames : OnMessage(ws, data)
  \/ \E ws \in Conns : PeerClosing(ws)
  \/ \E ws \in Conns : OnError(ws)
  \/ \E ws \in Conns : OnClose(ws)
  \/ OnSignal
  \/ OnServerClosed
  \/ Return

Spec == Init /\ [][Next]_vars

\* The transport reports every connection that stopped being OPEN as closed
\* (the ws library emits close once the socket has ended, and the ping timer
\* finds dead peers) although other listeners run in between, and a running
\* listener returns.
SpecFair ==
  /\ Spec
  /\ \A ws \in Conns : SF_vars(phase[ws] \in {"closing", "draining"} /\ OnClose(ws))
  /\ WF_vars(Return)

\* The close event handled a second time for a handle already CLOSED, as a
\* caller of handleDisconnect could do; the server itself never does.
OnCloseAgain(ws) ==
  /\ Idle
  /\ phase[ws] = "closed"
  /\ LET r == handleDisconnect(users, phase, ws)
     IN /\ users' = r.users
        /\ out' = r.out
        /\ lastList' = Received(lastList, r.out)
  /\ last' = [op |-> "close-again", ws |-> ws]
  /\ UNCHANGED <<phase, minted, now, stopping>>

NextTwice ==
  \/ Next
  \/ \E ws \in Conns : OnCloseAgain(ws)

SpecTwice == Init /\ [][NextTwice]_vars

(***************************************************************************)
(* The claims.                                                             *)
(***************************************************************************)
Registered(ws) == \E i \in 1..Len(users) : users[i].ws = ws
Roster(us) == {[id |-> us[i].id, username |-> us[i].username] : i \in 1..Len(us)}
SentTo(o, ws) == {i \in 1..Len(o) : o[i].to = ws}
GotFrom(o, ws) == {i \in 1..Len(o) : o[i].to = ws /\ o[i].rs = "OPEN"}
Signaling == {"offer", "answer", "ice-candidate"}
Typing == {"typing", "stop-typing"}
Handling(kinds) == last.op = "message" /\ TypeOf(last.data) \in kinds
SeesRoster(ws) ==
  /\ lastList[ws].got
  /\ Roster(lastList[ws].users) = Roster(users)

C2_NoEntryAfterClose ==
  \A ws \in Conns : phase[ws] = "closed" => ~Registered(ws)

\* C3: no two registry entries hold the same connection handle.
C3_HandleExclusive ==
  \A i, j \in 1..Len(users) : i # j => users[i].ws # users[j].ws

\* C4: the identity a successful join mints is none that was ever minted
\* before, the join appends one entry and leaves the others as they were,
\* and no two entries of the registry share an identity.
C4_IdentityFresh ==
  [][ /\ \A i, j \in 1..Len(users') : i # j => users'[i].id # users'[j].id
      /\ (last'.op = "message" /\ Registers(last'.data)) =>
           /\ Len(users') = Len(users) + 1
           /\ SubSeq(users', 1, Len(users)) = users
           /\ users'[Len(users')].id \notin minted
           /\ users'[Len(users')].id \notin {users[i].id : i \in 1..Len(users)} ]_vars

\* A join after an earlier participant was removed.
C4_Witness ==
  /\ last.op = "message" /\ Registers(last.data)
  /\ Cardinality(minted) = 2
  /\ Len(users) = 1

\* C5: a signaling envelope with a targetUserId goes, unmodified, to the one
\* connection registered under that identity when it is OPEN, and to no
\* connection otherwise.
C5_PointToPoint ==
  (Handling(Signaling) /\ ~Falsy(last.data, "targetUserId")) =>
    LET hit == {i \in 1..Len(users) : users[i].id = last.data.targetUserId}
    IN IF \E i \in hit : phase[users[i].ws] = "open"
       THEN /\ Len(out) = 1
            /\ out[1].env = last.data
            /\ out[1].rs = "OPEN"
            /\ \A i \in hit : out[1].to = users[i].ws
       ELSE out = << >>

\* An offer delivered to a participant other than its sender, while the
\* sender is itself a participant with an OPEN connection.
C5_Witness ==
  /\ Handling(Signaling)
  /\ Len(out) = 1 /\ out[1].to # last.ws
  /\ phase[last.ws] = "open" /\ Registered(last.ws)

\* C6 as stated: a chat envelope with userId and username from an OPEN
\* connection is delivered to every OPEN connection, the sender included.
C6_AsStated ==
  (Handling({"message"}) /\ Stamps(last.data) /\ phase[last.ws] = "open") =>
    \A ws \in Conns : phase[ws] = "open" => GotFrom(out, ws) # {}

\* C6 amended: the chat envelope is delivered to every OPEN connection that
\* holds a registry entry (the sender's too, when it holds one) and to no
\* other connection.
C6_ChatFanOut ==
  (Handling({"message"}) /\ Stamps(last.data)) =>
    /\ \A ws \in Conns :
         (phase[ws] = "open" /\ Registered(ws)) <=> GotFrom(out, ws) # {}
    /\ \A i \in 1..Len(out) :
         /\ out[i].rs = "OPEN"
         /\ out[i].env.type = "message"
         /\ out[i].env.userId = last.data.userId
         /\ out[i].env.username = last.data.username

\* A chat from a joined connection reaching it and another participant.
C6_Witness ==
  /\ Handling({"message"}) /\ Stamps(last.data)
  /\ GotFrom(out, last.ws) # {}
  /\ \E ws \in Conns : ws # last.ws /\ GotFrom(out, ws) # {}

\* C7: a typing or stop-typing envelope with a userId reaches every OPEN
\* participant connection other than the sending one, unmodified, and never
\* the sending connection.
C7_TypingFanOut ==
  (Handling(Typing) /\ ~Falsy(last.data, "userId")) =>
    /\ SentTo(out, last.ws) = {}
    /\ \A ws \in Conns :
         (ws # last.ws /\ phase[ws] = "open" /\ Registered(ws)) =>
           \E i \in GotFrom(out, ws) : out[i].env = last.data

\* C8: a second handleDisconnect for the same handle changes nothing and
\* sends nothing.
C8_DisconnectIdempotent ==
  [][ last'.op = "close-again" => (users' = users /\ out' = << >>) ]_vars

\* C9: a join with a username appends one Participant, sends one joined
\* envelope (the new identity, the username) to the joining connection first,
\* and then the user-list of the new registry, once per registry entry whose
\* connection is OPEN.
C9_JoinHandshake ==
  [][ (last'.op = "message" /\ Registers(last'.data)) =>
        LET n == Len(users')
            ws == last'.ws
            new == users'[n]
            live == {i \in 1..n : phase'[users'[i].ws] = "open"}
        IN /\ n = Len(users) + 1
           /\ SubSeq(users', 1, n - 1) = users
           /\ new.ws = ws /\ new.username = last'.data.username
           /\ Len(out') = 1 + Cardinality(live)
           /\ out'[1].to = ws
           /\ out'[1].env = [type |-> "joined", userId |-> new.id,
                             username |-> last'.data.username]
           /\ \A k \in 2..Len(out') :
                /\ out'[k].env.type = "user-list"
                /\ Roster(out'[k].env.users) = Roster(users')
                /\ Len(out'[k].env.users) = n
                /\ out'[k].rs = "OPEN"
                /\ \E i \in 1..n : users'[i].ws = out'[k].to
           /\ \A i \in live :
                Cardinality({k \in 2..Len(out') : out'[k].to = users'[i].ws})
                  = Cardinality({j \in live : users'[j].ws = users'[i].ws}) ]_vars

\* A second participant joins: joined to it, then the user-list to both.
C9_Witness ==
  /\ last.op = "message" /\ Registers(last.data)
  /\ Len(out) = 3
  /\ out[1].env.type = "joined" /\ out[1].to = last.ws
  /\ {out[2].to, out[3].to} = {1, 2}

\* C10 as stated: a join without a username leaves the registry unchanged and
\* results in exactly one error envelope, sent to the originating connection.
C10_AsStated ==
  [][ (last'.op = "message" /\ TypeOf(last'.data) = "join"
         /\ Falsy(last'.data, "username")) =>
        /\ users' = users
        /\ Len(out') = 1
        /\ out'[1].to = last'.ws
        /\ out'[1].env.type = "error" ]_vars

\* C10 amended: such a join leaves the registry unchanged, sends no joined
\* and no user-list, and sends exactly one error envelope to the originating
\* connection when that connection is OPEN, and nothing at all when it is not.
C10_JoinValidation ==
  [][ (last'.op = "message" /\ TypeOf(last'.data) = "join"
         /\ Falsy(last'.data, "username")) =>
        /\ users' = users
        /\ lastList' = lastList
        /\ IF phase[last'.ws] = "open"
           THEN /\ Len(out') = 1
                /\ out'[1].to = last'.ws
                /\ out'[1].rs = "OPEN"
                /\ out'[1].env.type = "error"
           ELSE out' = << >> ]_vars

\* A join with an empty username answered by an error, with a participant
\* present that receives nothing.
C10_Witness ==
  /\ last.op = "message" /\ TypeOf(last.data) = "join"
  /\ "username" \in DOMAIN last.data
  /\ Len(out) = 1 /\ out[1].env.type = "error"
  /\ \E ws \in Conns : ws # last.ws /\ phase[ws] = "open" /\ Registered(ws)
\* C11 as stated: a signaling envelope without a targetUserId is answered
\* with an error envelope to the sending connection, forwarded to no one, and
\* leaves the registry unchanged.
C11_AsStated ==
  [][ (last'.op = "message" /\ TypeOf(last'.data) \in Signaling
         /\ Falsy(last'.data, "targetUserId") /\ phase[last'.ws] = "open") =>
        /\ users' = users
        /\ Len(out') = 1
        /\ out'[1].to = last'.ws
        /\ out'[1].env.type = "error" ]_vars

\* C11 amended: a signaling envelope without a targetUserId is dropped: the
\* server sends nothing to any connection, the sender included, and leaves
\* the registry unchanged.
C11_NoTargetDropped ==
  [][ (last'.op = "message" /\ TypeOf(last'.data) \in Signaling
         /\ Falsy(last'.data, "targetUserId")) =>
        /\ users' = users
        /\ lastList' = lastList
        /\ out' = << >> ]_vars

\* An offer without a target sent by a participant while another participant
\* is connected.
C11_Witness ==
  /\ Handling(Signaling) /\ Falsy(last.data, "targetUserId")
  /\ out = << >>
  /\ phase[last.ws] = "open" /\ Registered(last.ws)
  /\ \E ws \in Conns : ws # last.ws /\ phase[ws] = "open" /\ Registered(ws)

BadFrame(data) ==
  \/ "raw" \in DOMAIN data
  \/ TypeOf(data) \notin
       {"join", "offer", "answer", "ice-candidate", "typing", "stop-typing", "message"}

\* C12 as stated: a frame that fails to parse or whose kind is not handled
\* gets exactly one error envelope, sent to the originating connection only;
\* the registry is unchanged and the connection is not closed.
C12_AsStated ==
  [][ (last'.op = "message" /\ BadFrame(last'.data)) =>
        /\ users' = users
        /\ phase' = phase
        /\ Len(out') = 1
        /\ out'[1].to = last'.ws
        /\ out'[1].env.type = "error" ]_vars

\* C12 amended: such a frame leaves the registry and every connection's
\* state unchanged, and the server sends exactly one error envelope, to the
\* originating connection, when that connection is OPEN, and nothing at all
\* when it is not.
C12_BadInputLocal ==
  [][ (last'.op = "message" /\ BadFrame(last'.data)) =>
        /\ users' = users
        /\ phase' = phase
        /\ lastList' = lastList
        /\ IF phase[last'.ws] = "open"
           THEN /\ Len(out') = 1
                /\ out'[1].to = last'.ws
                /\ out'[1].rs = "OPEN"
                /\ out'[1].env.type = "error"
           ELSE out' = << >> ]_vars

\* An unparseable frame answered by an error while a participant is
\* connected on another connection.
C12_Witness ==
  /\ last.op = "message" /\ "raw" \in DOMAIN last.data
  /\ Len(out) = 1 /\ out[1].env.type = "error" /\ out[1].to = last.ws
  /\ phase[last.ws] = "open"
  /\ \E ws \in Conns : ws # last.ws /\ phase[ws] = "open" /\ Registered(ws)

\* C13: every chat envelope sent carries the clock reading of its dispatch
\* as timestamp, whatever timestamp the client supplied, the same for all
\* recipients; the clock readings, and so the timestamps of successive chat
\* messages, never decrease.
C13_ChatTimestamp ==
  [][ /\ now' >= now
      /\ (last'.op = "message" /\ Stamps(last'.data)) =>
           \A i \in 1..Len(out') :
             /\ out'[i].env.type = "message"
             /\ out'[i].env.timestamp = now' ]_vars

\* A chat that came with its own timestamp, delivered to two connections
\* after the clock has advanced.
C13_Witness ==
  /\ Handling({"message"}) /\ "timestamp" \in DOMAIN last.data
  /\ now = 1
  /\ \A ws \in Conns : \E i \in GotFrom(out, ws) : out[i].env.timestamp = 1
EntriesOf(us, ws) == {i \in 1..Len(us) : us[i].ws = ws}
Without(us, k) == [i \in 1..(Len(us) - 1) |-> IF i < k THEN us[i] ELSE us[i + 1]]
ListsIn(o) == {i \in 1..Len(o) : o[i].env.type = "user-list"}

\* C14 as stated: the handler of a close or of an error event for a handle
\* that has a Participant removes a Participant and broadcasts the user-list;
\* for a handle without one it changes and sends nothing.
C14_AsStated ==
  [][ (last'.op \in {"close", "error"}) =>
        IF EntriesOf(users, last'.ws) # {}
        THEN /\ Len(users') = Len(users) - 1
             /\ \A ws \in Conns :
                  (phase'[ws] = "open" /\ EntriesOf(users', ws) # {}) =>
                    \E i \in ListsIn(out') : out'[i].to = ws
        ELSE users' = users /\ out' = << >> ]_vars

\* C14 amended: only the close event is a disconnect event.  Its handler
\* removes the most recently registered Participant of the handle and sends
\* the new user-list to every OPEN registered connection, or changes and
\* sends nothing when the handle has no Participant.  The error handler
\* changes and sends nothing.
C14_CloseDisconnects ==
  [][ /\ (last'.op = "close") =>
           LET mine == EntriesOf(users, last'.ws)
           IN IF mine # {}
              THEN /\ users' = Without(users, Max(mine))
                   /\ \A i \in 1..Len(out') :
                        /\ out'[i].env.type = "user-list"
                        /\ Roster(out'[i].env.users) = Roster(users')
                   /\ \A ws \in Conns :
                        (phase'[ws] = "open" /\ EntriesOf(users', ws) # {}) =>
                          \E i \in 1..Len(out') : out'[i].to = ws
              ELSE users' = users /\ out' = << >>
      /\ (last'.op = "error") =>
           (users' = users /\ out' = << >> /\ lastList' = lastList) ]_vars

\* An error reported for a participant's connection while another participant
\* is connected: the registry still holds both.
C14_Witness ==
  /\ last.op = "error"
  /\ Registered(last.ws)
  /\ \E ws \in Conns : ws # last.ws /\ phase[ws] = "open" /\ Registered(ws)

C16_DisconnectReflected ==
  \A ws \in Conns :
    (phase[ws] \in {"closing", "draining"} /\ Registered(ws))
      ~> \/ /\ ~Registered(ws)
            /\ \A c \in Conns : (phase[c] = "open" /\ Registered(c)) => SeesRoster(c)
         \/ last.op = "exit"

\* C17: every send a handler attempts is on a connection whose readyState is
\* OPEN at the call.
C17_OnlyOpenSends ==
  \A i \in 1..Len(out) : out[i].rs = "OPEN"

\* C18: handling a signaling, typing or chat envelope leaves the registry
\* unchanged and sends no user-list; the registry changes only by a join
\* with a username (one entry appended) or by the close handler (one entry
\* removed).
C18_RoutingKeepsRegistry ==
  [][ /\ (last'.op = "message"
            /\ TypeOf(last'.data) \in Signaling \cup Typing \cup {"message"}) =>
           (users' = users /\ ListsIn(out') = {} /\ lastList' = lastList)
      /\ (users' # users) =>
           \/ /\ last'.op = "message" /\ Registers(last'.data)
              /\ Len(users') = Len(users) + 1
           \/ /\ last'.op = "close"
              /\ Len(users') = Len(users) - 1 ]_vars

\* A typing envelope forwarded between two participants.
C18_Witness ==
  /\ Handling(Typing)
  /\ Len(users) = 2
  /\ \E i \in 1..Len(out) : out[i].to # last.ws /\ out[i].env.type = "typing"

\* C19: shutdown closes every connection that is OPEN when it runs, joined
\* or not.
C19_ShutdownClosesAll ==
  [][ (last'.op = "shutdown") =>
        \A ws \in Conns : phase[ws] = "open" => phase'[ws] = "closing" ]_vars

====
